---- MODULE Spec2Model ----
(***************************************************************************)
(* Model of jay8860/AIModeratorCousins: the session window kept by         *)
(* text_handler (src/main.py), the paper-trading ledger of src/database.py *)
(* and the /buy command handler buy_command (src/main.py).                 *)
(*                                                                         *)
(* The specifications share the variables:                                 *)
(*   Spec      the bot handling /buy updates (buy_command);                *)
(*   SpecChat  the bot handling text messages (text_handler), each to its  *)
(*             end;                                                        *)
(*   SpecCo    text_handler coroutines interleaving at their awaits;       *)
(*   SpecValue the bot handling /portfolio updates (portfolio_command);    *)
(*   SpecDB    the functions of database.py called directly, with          *)
(*             arguments that bind to their parameters;                    *)
(*   SpecRead  get_balance and update_balance called directly;             *)
(*   SpecConn  buy_stock calls on two connections at a time.               *)
(*                                                                         *)
(* Numbers: REAL/float values are modelled by integers (balances, shares,  *)
(* prices) and by exact fractions <<num, den>> (avg_price); rounding of    *)
(* IEEE doubles is not modelled.                                           *)
(***************************************************************************)
EXTENDS Integers, Sequences, FiniteSets, TLC

VARIABLES
    chat_histories,  \* main.py:41   dict chat_id -> list of formatted messages
    sent,            \* history: per chat, every message appended so far, in order
    cash_v2,         \* database.py:22  rows of table cash_v2
    portfolios_v2,   \* database.py:11  rows of table portfolios_v2
    buy,             \* per handler slot, the state of one buy_command coroutine
    nbuys,           \* number of /buy updates received so far
    paid,            \* history: per (chat, user, ticker), sums over the buy_stock calls that returned
    ncalls,          \* number of direct calls of database.py functions so far
    report,          \* what the last portfolio_command made of the tables
    ret,             \* what the last direct call of database.get_balance returned
    nreads,          \* number of direct calls of database.get_balance so far
    txt,             \* per slot, the state of one text_handler coroutine
    ntexts,          \* number of text_handler coroutines begun on the slots of txt
    conn,            \* per slot, a buy_stock call between its SELECT and its commit
    nconn            \* number of buy_stock calls begun on the slots of conn

vars == <<chat_histories, sent, cash_v2, portfolios_v2, buy, nbuys, paid, ncalls,
          report, ret, nreads, txt, ntexts, conn, nconn>>

\* the variables of the later sections
more == <<report, ret, nreads, txt, ntexts, conn, nconn>>

----------------------------------------------------------------------------
(* Bounds of the model and the small sets inputs are drawn from.           *)

\* messages appended per chat (above MAX_HISTORY_LENGTH, so that eviction happens)
MaxMsgs == 152
\* /buy updates received
MaxBuys == 3
\* direct calls of database.py functions
MaxApiCalls == 3

ChatIds == {1, 2}
UserIds == {1, 2}
Handlers == {"h1", "h2"}
Tickers == {"AAPL", "TSLA"}
\* what the intent extraction may return as "ticker" (main.py:191 upper-cases it)
LlmTickers == {"", "aapl", "TSLA"}
\* what the intent extraction may return as "quantity" (main.py:192)
Quantities == {-1, 0, 1, 2}
\* what fast_info.get("lastPrice") may return as a number (main.py:199)
Prices == {0, 150, 6000000}
\* arguments of direct calls of database.py: accounts that differ in the chat
\* alone and in the user alone
ApiAccounts == {<<1, 1>>, <<1, 2>>, <<2, 1>>}
ApiNames == {"Ann", "Bob"}
ApiShares == {-1, 2}
ApiPrices == {150, 180}
ApiAmounts == {500}

\* update.message.from_user.first_name of a user (main.py:175, 323)
first_name(user_id) == IF user_id = 1 THEN "Ann" ELSE "Bob"

----------------------------------------------------------------------------
(* Session window: src/main.py, text_handler lines 316-333.                *)

\* main.py:42
MAX_HISTORY_LENGTH == 150

\* main.py:329  f"{user_name}: {text}"
formatted_msg(user_name, text) == <<user_name, ": ", text>>

\* list.pop(0): the list without its first element
pop_first(lst) == SubSeq(lst, 2, Len(lst))

\* mutant: list.pop() drops the newest element instead of the oldest
trim_pop_last(lst) == IF Len(lst) > MAX_HISTORY_LENGTH THEN SubSeq(lst, 1, Len(lst) - 1) ELSE lst

\* mutant: the length check is missing
trim_never(lst) == lst

\* main.py:332-333  if len(...) > MAX_HISTORY_LENGTH: pop(0)
trim(lst) ==
    IF Len(lst) > MAX_HISTORY_LENGTH THEN pop_first(lst) ELSE lst

\* mutant: the message is appended to the window of every chat
record_message_everywhere(histories, chat_id, msg) ==
    LET created == IF chat_id \in DOMAIN histories
                   THEN histories
                   ELSE [c \in DOMAIN histories \cup {chat_id} |->
                            IF c = chat_id THEN <<>> ELSE histories[c]]
    IN  [c \in DOMAIN created |-> trim(Append(created[c], msg))]

\* mutant: the window is set to [] whether the chat has one or not
record_message_reinit(histories, chat_id, msg) ==
    [c \in DOMAIN histories \cup {chat_id} |->
        IF c = chat_id THEN trim(<<msg>>) ELSE histories[c]]

\* main.py:326-333: the dict after one message of chat_id is recorded
record_message(histories, chat_id, msg) ==
    LET created == IF chat_id \in DOMAIN histories
                   THEN histories
                   ELSE [c \in DOMAIN histories \cup {chat_id} |->
                            IF c = chat_id THEN <<>> ELSE histories[c]]
        appended == [created EXCEPT ![chat_id] = Append(@, msg)]
    IN  [appended EXCEPT ![chat_id] = trim(@)]

\* text_handler, lines 316-333, for one update.  The lines hold no await:
\* the coroutine runs them without any other handler in between.
\* An update without text returns at line 318.
\* The k-th text of a chat is the number k, sent by the users in turn.
TextHandler(chat_id, has_text) ==
    /\ Len(sent[chat_id]) < MaxMsgs
    /\ LET text == Len(sent[chat_id]) + 1
           user_id == IF text % 2 = 1 THEN 1 ELSE 2
           msg == formatted_msg(first_name(user_id), text)
       IN  IF has_text
           THEN /\ chat_histories' = record_message(chat_histories, chat_id, msg)
                /\ sent' = [sent EXCEPT ![chat_id] = Append(@, msg)]
           ELSE UNCHANGED <<chat_histories, sent>>
    /\ UNCHANGED <<cash_v2, portfolios_v2, buy, nbuys, paid, ncalls>>
    /\ UNCHANGED more

----------------------------------------------------------------------------
(* Ledger store: src/database.py.  A table is the set of its rows.         *)

\* database.py:40
StartingBalance == 10000000

\* Fractions <<num, den>> with den > 0, in lowest terms.
RECURSIVE GCD(_, _)
GCD(a, b) == IF b = 0 THEN a ELSE GCD(b, a % b)

Abs(x) == IF x < 0 THEN 0 - x ELSE x

Frac(n, d) ==
    LET g == GCD(Abs(n), Abs(d))
        s == IF d < 0 THEN 0 - 1 ELSE 1
    IN  <<(s * n) \div g, (s * d) \div g>>

\* the fraction of an integer
FracOf(n) == <<n, 1>>

\* mutant: an account without a row reads as a negative sentinel
get_balance_sentinel(cash, chat_id, user_id) ==
    LET rows == {r \in cash : r.chat_id = chat_id /\ r.user_id = user_id}
    IN  IF rows # {} THEN (CHOOSE r \in rows : TRUE).balance ELSE 0 - 1

\* database.py:35-40  SELECT balance ... fetchone(), or the starting balance
get_balance(cash, chat_id, user_id) ==
    LET rows == {r \in cash : r.chat_id = chat_id /\ r.user_id = user_id}
    IN  IF rows # {} THEN (CHOOSE r \in rows : TRUE).balance ELSE StartingBalance

\* mutant: the row is replaced for the whole chat, whoever the user
update_balance_chat_wide(cash, chat_id, user_id, new_balance) ==
    {r \in cash : r.chat_id # chat_id}
        \cup {[chat_id |-> chat_id, user_id |-> user_id, balance |-> new_balance]}

\* database.py:45-46  INSERT OR REPLACE under UNIQUE(chat_id, user_id), commit
update_balance(cash, chat_id, user_id, new_balance) ==
    {r \in cash : ~(r.chat_id = chat_id /\ r.user_id = user_id)}
        \cup {[chat_id |-> chat_id, user_id |-> user_id, balance |-> new_balance]}

\* database.py:61-62  the row SELECTed for (chat_id, user_id, ticker), if any
position_rows(pf, chat_id, user_id, ticker) ==
    {r \in pf : r.chat_id = chat_id /\ r.user_id = user_id /\ r.ticker = ticker}

\* mutant: the plain mean of the two prices
new_avg_price_mean(old_shares, old_price, shares, price, new_shares) ==
    Frac(old_price[1] + price * old_price[2], old_price[2] * 2)

\* database.py:67  ((old_shares * old_price) + (shares * price)) / new_shares
new_avg_price(old_shares, old_price, shares, price, new_shares) ==
    Frac(old_shares * old_price[1] + shares * price * old_price[2],
         old_price[2] * new_shares)

\* database.py:57-75  buy_stock: the table after the call, and whether the call
\* raised (ZeroDivisionError at line 67: nothing was executed or committed)
buy_stock(pf, chat_id, user_id, user_name, ticker, shares, price) ==
    LET rows == position_rows(pf, chat_id, user_id, ticker)
    IN  IF rows # {}
        THEN LET row == CHOOSE r \in rows : TRUE
                 new_shares == row.shares + shares
             IN  IF new_shares = 0
                 THEN [raised |-> TRUE, rows |-> pf]
                 ELSE [raised |-> FALSE,
                       rows |-> (pf \ rows) \cup
                           {[r EXCEPT !.shares = new_shares,
                                      !.avg_price = new_avg_price(row.shares, row.avg_price,
                                                                  shares, price, new_shares)]
                             : r \in rows}]
        ELSE [raised |-> FALSE,
              rows |-> pf \cup {[chat_id |-> chat_id, user_id |-> user_id,
                                 user_name |-> user_name, ticker |-> ticker,
                                 shares |-> shares, avg_price |-> FracOf(price)]}]

\* database.py:77-83  SELECT DISTINCT user_id, user_name ... WHERE chat_id = ?
\* the distinct (user_id, user_name) pairs of the rows of the chat
get_all_investors(pf, chat_id) ==
    {[user_id |-> r.user_id, user_name |-> r.user_name] : r \in {x \in pf : x.chat_id = chat_id}}

----------------------------------------------------------------------------
(* Trade executor: src/main.py, buy_command lines 173-217.                 *)

\* The parameters of the ledger functions (database.py:32, 42, 57).
get_balance_params == <<"chat_id", "user_id">>
update_balance_params == <<"chat_id", "user_id", "new_balance">>
buy_stock_params == <<"chat_id", "user_id", "user_name", "ticker", "shares", "price">>

\* A Python call with positional arguments and no defaults binds iff it passes
\* one argument per parameter; otherwise it raises TypeError before the body runs.
Binds(params, args) == Len(args) = Len(params)

\* mutant: the account is passed as the ledger functions declare it
LedgerKeyScoped(chat_id, user_id) == <<chat_id, user_id>>

\* How buy_command names the account in its three ledger calls
\* (main.py:205, 211, 212): by user_id alone.
LedgerKey(chat_id, user_id) == <<user_id>>

\* The replies of buy_command (main.py:195, 201, 208, 214, 217); a handler
\* that has not replied holds NoReply.
NoReply == "-"
ReplyNoTicker == "Could not identify the stock ticker. Try again!"
ReplyNoPrice == "Could not fetch real-time price"
ReplyInsufficient == "Failed: You need more than your balance"
ReplyExecuted == "Paper Trade Executed!"
ReplyFailed == "Failed to process paper trade."

\* main.py:191  str.upper on the tickers of the model
upper(t) == IF t = "aapl" THEN "AAPL" ELSE t

\* What the awaited generate_content call and lines 189-192 yield: an exception
\* (no client, a failed request, text that is no JSON, a quantity float() rejects)
\* or the ticker and quantity extracted.
LlmOutcomes ==
    {[raised |-> TRUE, ticker |-> "", quantity |-> 0]}
        \cup {[raised |-> FALSE, ticker |-> t, quantity |-> q] : t \in LlmTickers, q \in Quantities}

\* What yf.Ticker(ticker).fast_info.get("lastPrice") yields (main.py:198-199):
\* an exception, None, or a number.
PriceOutcomes ==
    {[kind |-> "raise", v |-> 0], [kind |-> "None", v |-> 0]}
        \cup {[kind |-> "value", v |-> p] : p \in Prices}

\* Where a storage error (sqlite3.Error before the commit) or the death of the
\* process strikes within lines 205-212, if anywhere.
Faults == {"none", "get_balance", "update_balance", "buy_stock", "crash"}

\* mutant: only a missing price counts as no price
no_price_is_none(px) == px.kind = "None"

\* main.py:200  not current_price
no_price(px) == px.kind = "None" \/ px.v = 0

Outcome(cash, pf, reply, dbcalls) ==
    [cash |-> cash, pf |-> pf, reply |-> reply, dbcalls |-> dbcalls]

\* main.py:204-217: the ledger section of buy_command, run on tables cash and pf.
\* dbcalls lists the ledger functions the handler called.
buy_ledger(cash, pf, chat_id, user_id, user_name, ticker, quantity, current_price, fault) ==
    LET key == LedgerKey(chat_id, user_id)
        total_cost == current_price * quantity
        a1 == key
    IN  IF ~Binds(get_balance_params, a1) \/ fault = "get_balance"
        THEN Outcome(cash, pf, ReplyFailed, <<"get_balance">>)
        ELSE
    LET balance == get_balance(cash, a1[1], a1[2])
        a2 == key \o <<balance - total_cost>>
    IN  IF balance < total_cost
        THEN Outcome(cash, pf, ReplyInsufficient, <<"get_balance">>)
        ELSE IF ~Binds(update_balance_params, a2) \/ fault = "update_balance"
        THEN Outcome(cash, pf, ReplyFailed, <<"get_balance", "update_balance">>)
        ELSE
    LET cash2 == update_balance(cash, a2[1], a2[2], a2[3])
        a3 == key \o <<user_name, ticker, quantity, current_price>>
    IN  IF fault = "crash"
        THEN Outcome(cash2, pf, NoReply, <<"get_balance", "update_balance">>)
        ELSE IF ~Binds(buy_stock_params, a3) \/ fault = "buy_stock"
        THEN Outcome(cash2, pf, ReplyFailed, <<"get_balance", "update_balance", "buy_stock">>)
        ELSE
    LET r == buy_stock(pf, a3[1], a3[2], a3[3], a3[4], a3[5], a3[6])
    IN  Outcome(cash2, r.rows, IF r.raised THEN ReplyFailed ELSE ReplyExecuted,
                <<"get_balance", "update_balance", "buy_stock">>)

\* main.py:189-217: buy_command from the return of the awaited extraction to its
\* reply.  llm and px are what the two collaborators yield.
buy_command(cash, pf, chat_id, user_id, user_name, llm, px, fault) ==
    IF llm.raised
    THEN Outcome(cash, pf, ReplyFailed, <<>>)
    ELSE IF upper(llm.ticker) = ""
    THEN Outcome(cash, pf, ReplyNoTicker, <<>>)
    ELSE IF px.kind = "raise"
    THEN Outcome(cash, pf, ReplyFailed, <<>>)
    ELSE IF no_price(px)
    THEN Outcome(cash, pf, ReplyNoPrice, <<>>)
    ELSE buy_ledger(cash, pf, chat_id, user_id, user_name, upper(llm.ticker),
                    llm.quantity, px.v, fault)

\* A handler slot with no coroutine in it.
Idle ==
    [pc |-> "idle", chat_id |-> 0, user_id |-> 0, extracted |-> FALSE, ticker |-> "",
     quantity |-> 0, price |-> "n/a", price_v |-> 0, reply |-> NoReply, dbcalls |-> <<>>,
     before |-> [cash |-> {}, pf |-> {}], after |-> [cash |-> {}, pf |-> {}]]

\* main.py:173-188: a /buy update arrives and its coroutine runs to the await
\* of the intent extraction.
BuyStart(h, chat_id, user_id) ==
    /\ buy[h].pc = "idle"
    /\ nbuys < MaxBuys
    /\ nbuys' = nbuys + 1
    /\ buy' = [buy EXCEPT ![h] = [Idle EXCEPT !.pc = "llm", !.chat_id = chat_id,
                                              !.user_id = user_id]]
    /\ UNCHANGED <<chat_histories, sent, cash_v2, portfolios_v2, paid, ncalls>>
    /\ UNCHANGED more

\* main.py:189-217: the extraction returns and the coroutine runs, with no
\* await on the way, to its reply.  The slot keeps what the buy was given
\* and the tables before and after it.
BuyResume(h, llm, px, fault) ==
    /\ buy[h].pc = "llm"
    /\ LET b == buy[h]
           out == buy_command(cash_v2, portfolios_v2, b.chat_id, b.user_id,
                              first_name(b.user_id), llm, px, fault)
           looked_up == ~llm.raised /\ upper(llm.ticker) # ""
       IN  /\ cash_v2' = out.cash
           /\ portfolios_v2' = out.pf
           /\ buy' = [buy EXCEPT ![h] =
                 [b EXCEPT !.pc = "done",
                           !.extracted = ~llm.raised,
                           !.ticker = upper(llm.ticker),
                           !.quantity = llm.quantity,
                           !.price = IF looked_up THEN px.kind ELSE "n/a",
                           !.price_v = IF looked_up THEN px.v ELSE 0,
                           !.reply = out.reply,
                           !.dbcalls = out.dbcalls,
                           !.before = [cash |-> cash_v2, pf |-> portfolios_v2],
                           !.after = [cash |-> out.cash, pf |-> out.pf]]]
    /\ UNCHANGED <<chat_histories, sent, nbuys, paid, ncalls>>
    /\ UNCHANGED more

\* The coroutine is over; its slot is free for the next update.
BuyReturn(h) ==
    /\ buy[h].pc = "done"
    /\ buy' = [buy EXCEPT ![h] = Idle]
    /\ UNCHANGED <<chat_histories, sent, cash_v2, portfolios_v2, nbuys, paid, ncalls>>
    /\ UNCHANGED more

----------------------------------------------------------------------------
(* database.py called directly.                                            *)

Keys == ChatIds \X UserIds \X Tickers

\* database.buy_stock(chat_id, user_id, user_name, ticker, shares, price).
\* paid adds up the shares and the amounts of the calls that returned.
ApiBuyStock(chat_id, user_id, user_name, ticker, shares, price) ==
    /\ ncalls < MaxApiCalls
    /\ ncalls' = ncalls + 1
    /\ LET r == buy_stock(portfolios_v2, chat_id, user_id, user_name, ticker, shares, price)
           k == <<chat_id, user_id, ticker>>
       IN  /\ portfolios_v2' = r.rows
           /\ paid' = IF r.raised THEN paid
                      ELSE [paid EXCEPT ![k] = [n |-> @.n + 1, q |-> @.q + shares,
                                                qp |-> @.qp + shares * price]]
    /\ UNCHANGED <<chat_histories, sent, cash_v2, buy, nbuys>>
    /\ UNCHANGED more

\* database.update_balance(chat_id, user_id, new_balance).
ApiUpdateBalance(chat_id, user_id, new_balance) ==
    /\ ncalls < MaxApiCalls
    /\ ncalls' = ncalls + 1
    /\ cash_v2' = update_balance(cash_v2, chat_id, user_id, new_balance)
    /\ UNCHANGED <<chat_histories, sent, portfolios_v2, buy, nbuys, paid>>
    /\ UNCHANGED more

----------------------------------------------------------------------------
(* Valuation: src/main.py, portfolio_command lines 219-249.                *)

\* database.py:49
get_portfolio_params == <<"chat_id", "user_id">>

\* database.py:52-55  the positions of an account with shares > 0
get_portfolio(pf, chat_id, user_id) ==
    {[ticker |-> r.ticker, shares |-> r.shares, avg_price |-> r.avg_price] :
        r \in {x \in pf : x.chat_id = chat_id /\ x.user_id = user_id /\ x.shares > 0}}

FracAdd(a, b) == Frac(a[1] * b[2] + b[1] * a[2], a[2] * b[2])

FracScale(k, a) == Frac(k * a[1], a[2])

\* What fast_info.get("lastPrice", avg) yields for one ticker (main.py:239): an
\* exception, a number, or, the key missing, the default avg.  (None, which
\* makes shares * curr raise, ends like the exception.)
ValueLookups ==
    {[kind |-> "raise", v |-> 0], [kind |-> "missing", v |-> 0], [kind |-> "value", v |-> 180]}

NoLookups == [t \in Tickers |-> [kind |-> "n/a", v |-> 0]]

\* main.py:239-241  the value added to total_value for one holding: an exception
\* of the lookup, or of shares * None, goes to the except of line 245, which
\* adds nothing.
holding_value(h, look) ==
    IF look.kind = "value" THEN FracOf(h.shares * look.v)
    ELSE IF look.kind = "missing" THEN FracScale(h.shares, h.avg_price)
    ELSE FracOf(0)

RECURSIVE holdings_value(_, _)
\* main.py:234-246  the sum the loop adds to total_value
holdings_value(holdings, lookup) ==
    IF holdings = {} THEN FracOf(0)
    ELSE LET h == CHOOSE x \in holdings : TRUE
         IN  FracAdd(holding_value(h, lookup[h.ticker]),
                     holdings_value(holdings \ {h}, lookup))

Report(chat_id, user_id, raised, net_worth, lookups) ==
    [pc |-> "done", chat_id |-> chat_id, user_id |-> user_id, raised |-> raised,
     net_worth |-> net_worth, lookups |-> lookups]

\* No portfolio_command has run.
NoReport ==
    [pc |-> "none", chat_id |-> 0, user_id |-> 0, raised |-> FALSE,
     net_worth |-> FracOf(0), lookups |-> NoLookups]

\* main.py:219-249  portfolio_command on the tables cash and pf.  The two ledger
\* calls of lines 223-224 stand outside any try: a TypeError of theirs ends
\* the handler without a reply.
portfolio_command(cash, pf, chat_id, user_id, lookup) ==
    LET key == LedgerKey(chat_id, user_id)
    IN  IF ~Binds(get_balance_params, key) \/ ~Binds(get_portfolio_params, key)
        THEN Report(chat_id, user_id, TRUE, FracOf(0), NoLookups)
        ELSE
    LET balance == get_balance(cash, key[1], key[2])
        holdings == get_portfolio(pf, key[1], key[2])
    IN  IF holdings = {}
        THEN Report(chat_id, user_id, FALSE, FracOf(balance), NoLookups)
        ELSE Report(chat_id, user_id, FALSE,
                    FracAdd(FracOf(balance), holdings_value(holdings, lookup)), lookup)

\* A /portfolio update is handled.
PortfolioCommand(chat_id, user_id, lookup) ==
    /\ report' = portfolio_command(cash_v2, portfolios_v2, chat_id, user_id, lookup)
    /\ UNCHANGED <<chat_histories, sent, cash_v2, portfolios_v2, buy, nbuys, paid, ncalls,
                   ret, nreads, txt, ntexts, conn, nconn>>

----------------------------------------------------------------------------
(* Balance reads: src/database.py, get_balance lines 32-40.                *)

\* direct calls of database.get_balance
MaxReads == 3

\* No get_balance call has returned.
NoRet == [pc |-> "none", chat_id |-> 0, user_id |-> 0, value |-> 0, had_row |-> FALSE]

\* mutant: the default is stored when it is handed out
get_balance_table_insert(cash, chat_id, user_id) ==
    IF {r \in cash : r.chat_id = chat_id /\ r.user_id = user_id} # {}
    THEN cash
    ELSE cash \cup {[chat_id |-> chat_id, user_id |-> user_id, balance |-> StartingBalance]}

\* database.py:33-38  table cash_v2 after get_balance: connect, one SELECT,
\* fetchone, close; no INSERT, no commit
get_balance_table(cash, chat_id, user_id) == cash

\* database.get_balance(chat_id, user_id), for any account, written or not.
ApiGetBalance(chat_id, user_id) ==
    /\ nreads < MaxReads
    /\ nreads' = nreads + 1
    /\ ret' = [pc |-> "done", chat_id |-> chat_id, user_id |-> user_id,
               value |-> get_balance(cash_v2, chat_id, user_id),
               had_row |-> {r \in cash_v2 : r.chat_id = chat_id /\ r.user_id = user_id} # {}]
    /\ cash_v2' = get_balance_table(cash_v2, chat_id, user_id)
    /\ UNCHANGED <<chat_histories, sent, portfolios_v2, buy, nbuys, paid, ncalls,
                   report, txt, ntexts, conn, nconn>>

----------------------------------------------------------------------------
(* text_handler as a coroutine: src/main.py, lines 316-377.                *)

\* text_handler coroutines begun on the slots
MaxTexts == 4

TextSlots == {"t1", "t2"}

\* main.py:348  [-30:]
ContextLength == 30

NoContext == <<"(No prior context)">>

\* No text_handler runs on the slot.
TextIdle == [pc |-> "idle", chat_id |-> 0, msg |-> <<>>, fresh |-> FALSE,
             history_context |-> <<>>]

\* lst[-n:]
last_entries(lst, n) ==
    IF Len(lst) > n THEN SubSeq(lst, Len(lst) - n + 1, Len(lst)) ELSE lst

\* main.py:348  the entries joined into history_context, in order: the last 30
\* of the window as it is when the line runs, the message of this update
\* among them; a window of one entry gives "(No prior context)".
history_context(histories, chat_id) ==
    IF Len(histories[chat_id]) > 1
    THEN last_entries(histories[chat_id], ContextLength)
    ELSE NoContext

\* text_handler on slot t, from line 316 to its first await.  Lines 316-335
\* hold no await.  A text with a URL suspends at line 340/343; any other text
\* runs line 348 at once and suspends in analyze_message_with_gemini (368, 375)
\* or returns.  The k-th text of a chat is the number k, as in TextHandler.
TextStart(t, chat_id, has_url) ==
    /\ txt[t].pc = "idle"
    /\ ntexts < MaxTexts
    /\ ntexts' = ntexts + 1
    /\ LET text == Len(sent[chat_id]) + 1
           user_id == IF text % 2 = 1 THEN 1 ELSE 2
           msg == formatted_msg(first_name(user_id), text)
           histories == record_message(chat_histories, chat_id, msg)
       IN  /\ chat_histories' = histories
           /\ sent' = [sent EXCEPT ![chat_id] = Append(@, msg)]
           /\ txt' = [txt EXCEPT ![t] =
                  IF has_url
                  THEN [pc |-> "summarize", chat_id |-> chat_id, msg |-> msg,
                        fresh |-> FALSE, history_context |-> <<>>]
                  ELSE [pc |-> "analyze", chat_id |-> chat_id, msg |-> msg,
                        fresh |-> TRUE,
                        history_context |-> history_context(histories, chat_id)]]
    /\ UNCHANGED <<cash_v2, portfolios_v2, buy, nbuys, paid, ncalls,
                   report, ret, nreads, conn, nconn>>

\* summarize_link returns (main.py:343): with a summary the handler replies and
\* returns at line 346; without one it goes on to line 348, on the window as
\* the other handlers have left it meanwhile.
TextSummarized(t, summary) ==
    /\ txt[t].pc = "summarize"
    /\ txt' = [txt EXCEPT ![t] =
           IF summary
           THEN [@ EXCEPT !.pc = "replied"]
           ELSE [@ EXCEPT !.pc = "analyze",
                          !.history_context = history_context(chat_histories, txt[t].chat_id)]]
    /\ UNCHANGED <<chat_histories, sent, cash_v2, portfolios_v2, buy, nbuys, paid, ncalls,
                   report, ret, nreads, ntexts, conn, nconn>>

\* The handler returns (lines 346, 370, 377).
TextReturn(t) ==
    /\ txt[t].pc \in {"analyze", "replied"}
    /\ txt' = [txt EXCEPT ![t] = TextIdle]
    /\ UNCHANGED <<chat_histories, sent, cash_v2, portfolios_v2, buy, nbuys, paid, ncalls,
                   report, ret, nreads, ntexts, conn, nconn>>

\* texts chat 1 has received, without a URL and handled to the end, when the
\* coroutines of SpecCo begin: none, or one short of a full window
PriorTexts == {0, MAX_HISTORY_LENGTH - 1}

\* the n-th text of chat 1
prior_text(n) == formatted_msg(first_name(IF n % 2 = 1 THEN 1 ELSE 2), n)

\* sent after chat 1 received n texts
prior_texts(n) == [i \in 1..n |-> prior_text(i)]

\* chat_histories after chat 1 received n texts (lines 326-333, once per
\* text): no window before the first, then the texts in order, the oldest
\* popped once there are more than MAX_HISTORY_LENGTH
prior_histories(n) ==
    IF n = 0 THEN [c \in {} |-> <<>>]
    ELSE [c \in {1} |-> last_entries(prior_texts(n), MAX_HISTORY_LENGTH)]

----------------------------------------------------------------------------
(* buy_stock on concurrent connections: src/database.py, lines 57-75.      *)

\* buy_stock calls begun on the connections
MaxConnCalls == 3

Conns == {"k1", "k2"}
ConnAccounts == {<<1, 1>>, <<1, 2>>}
ConnShares == {1, 2}

\* No buy_stock call runs on the connection.
ConnIdle == [pc |-> "idle", chat_id |-> 0, user_id |-> 0, user_name |-> "", ticker |-> "",
             shares |-> 0, price |-> 0, row |-> {}, outcome |-> ""]

\* mutant: the table has no UNIQUE(chat_id, user_id, ticker)
insert_position_no_unique(pf, row) == [raised |-> FALSE, rows |-> pf \cup {row}]

\* database.py:18, 71-72  INSERT under UNIQUE(chat_id, user_id, ticker): a second
\* row of the key is refused with IntegrityError and the table is as it was
insert_position(pf, row) ==
    IF position_rows(pf, row.chat_id, row.user_id, row.ticker) # {}
    THEN [raised |-> TRUE, rows |-> pf]
    ELSE [raised |-> FALSE, rows |-> pf \cup {row}]

\* database.py:68-69  UPDATE ... SET shares, avg_price WHERE chat_id, user_id, ticker
update_position(pf, chat_id, user_id, ticker, new_shares, avg_price) ==
    {IF r.chat_id = chat_id /\ r.user_id = user_id /\ r.ticker = ticker
     THEN [r EXCEPT !.shares = new_shares, !.avg_price = avg_price]
     ELSE r : r \in pf}

\* database.py:58-62  the call connects and SELECTs the row of its key
ConnSelect(k, chat_id, user_id, user_name, ticker, shares, price) ==
    /\ conn[k].pc = "idle"
    /\ nconn < MaxConnCalls
    /\ nconn' = nconn + 1
    /\ conn' = [conn EXCEPT ![k] =
           [pc |-> "selected", chat_id |-> chat_id, user_id |-> user_id,
            user_name |-> user_name, ticker |-> ticker, shares |-> shares, price |-> price,
            row |-> position_rows(portfolios_v2, chat_id, user_id, ticker), outcome |-> ""]]
    /\ UNCHANGED <<chat_histories, sent, cash_v2, portfolios_v2, buy, nbuys, paid, ncalls,
                   report, ret, nreads, txt, ntexts>>

\* database.py:64-75  the call writes from the row it SELECTed, and commits:
\* UPDATE with the sums over that row, or INSERT if it found none.
ConnWrite(k) ==
    /\ conn[k].pc = "selected"
    /\ LET b == conn[k] IN
       IF b.row # {}
       THEN LET row == CHOOSE r \in b.row : TRUE
                new_shares == row.shares + b.shares
            IN  IF new_shares = 0
                THEN /\ conn' = [conn EXCEPT ![k].pc = "done", ![k].outcome = "ZeroDivisionError"]
                     /\ UNCHANGED portfolios_v2
                ELSE /\ portfolios_v2' =
                            update_position(portfolios_v2, b.chat_id, b.user_id, b.ticker, new_shares,
                                new_avg_price(row.shares, row.avg_price, b.shares, b.price, new_shares))
                     /\ conn' = [conn EXCEPT ![k].pc = "done", ![k].outcome = "updated"]
       ELSE LET r == insert_position(portfolios_v2,
                         [chat_id |-> b.chat_id, user_id |-> b.user_id, user_name |-> b.user_name,
                          ticker |-> b.ticker, shares |-> b.shares, avg_price |-> FracOf(b.price)])
            IN  /\ portfolios_v2' = r.rows
                /\ conn' = [conn EXCEPT ![k].pc = "done",
                                        ![k].outcome = IF r.raised THEN "IntegrityError" ELSE "inserted"]
    /\ UNCHANGED <<chat_histories, sent, cash_v2, buy, nbuys, paid, ncalls,
                   report, ret, nreads, txt, ntexts, nconn>>

\* The call returns or raises to its caller.
ConnReturn(k) ==
    /\ conn[k].pc = "done"
    /\ conn' = [conn EXCEPT ![k] = ConnIdle]
    /\ UNCHANGED <<chat_histories, sent, cash_v2, portfolios_v2, buy, nbuys, paid, ncalls,
                   report, ret, nreads, txt, ntexts, nconn>>

----------------------------------------------------------------------------
(* Specifications.                                                         *)

\* main.py:17, 41: the tables exist and are empty, no chat has a window, no
\* handler runs.
Init ==
    /\ chat_histories = [c \in {} |-> <<>>]
    /\ sent = [c \in ChatIds |-> <<>>]
    /\ cash_v2 = {}
    /\ portfolios_v2 = {}
    /\ buy = [h \in Handlers |-> Idle]
    /\ nbuys = 0
    /\ paid = [k \in Keys |-> [n |-> 0, q |-> 0, qp |-> 0]]
    /\ ncalls = 0
    /\ report = NoReport
    /\ ret = NoRet
    /\ nreads = 0
    /\ txt = [t \in TextSlots |-> TextIdle]
    /\ ntexts = 0
    /\ conn = [k \in Conns |-> ConnIdle]
    /\ nconn = 0

Next ==
    \/ \E h \in Handlers, c \in ChatIds, u \in UserIds : BuyStart(h, c, u)
    \/ \E h \in Handlers, llm \in LlmOutcomes, px \in PriceOutcomes, f \in Faults :
           BuyResume(h, llm, px, f)
    \/ \E h \in Handlers : BuyReturn(h)

NextChat ==
    \E c \in ChatIds, has_text \in BOOLEAN : TextHandler(c, has_text)

NextDB ==
    \/ \E acc \in ApiAccounts, n \in ApiNames, t \in Tickers, s \in ApiShares, p \in ApiPrices :
           ApiBuyStock(acc[1], acc[2], n, t, s, p)
    \/ \E acc \in ApiAccounts, a \in ApiAmounts : ApiUpdateBalance(acc[1], acc[2], a)

Spec == Init /\ [][Next]_vars

SpecChat == Init /\ [][NextChat]_vars

SpecDB == Init /\ [][NextDB]_vars

\* /portfolio updates, on tables that direct calls of database.py have filled
NextValue ==
    \/ NextDB
    \/ \E c \in ChatIds, u \in UserIds, lookup \in [Tickers -> ValueLookups] :
           PortfolioCommand(c, u, lookup)

SpecValue == Init /\ [][NextValue]_vars

\* Balances written and read through database.py.
NextRead ==
    \/ \E acc \in ApiAccounts, a \in ApiAmounts : ApiUpdateBalance(acc[1], acc[2], a)
    \/ \E c \in ChatIds, u \in UserIds : ApiGetBalance(c, u)

SpecRead == Init /\ [][NextRead]_vars

\* The bot handling text messages as coroutines, chat 1 having received
\* texts before or not.
InitCo ==
    /\ \E n \in PriorTexts :
           /\ chat_histories = prior_histories(n)
           /\ sent = [c \in ChatIds |-> IF c = 1 THEN prior_texts(n) ELSE <<>>]
    /\ cash_v2 = {}
    /\ portfolios_v2 = {}
    /\ buy = [h \in Handlers |-> Idle]
    /\ nbuys = 0
    /\ paid = [k \in Keys |-> [n |-> 0, q |-> 0, qp |-> 0]]
    /\ ncalls = 0
    /\ report = NoReport
    /\ ret = NoRet
    /\ nreads = 0
    /\ txt = [t \in TextSlots |-> TextIdle]
    /\ ntexts = 0
    /\ conn = [k \in Conns |-> ConnIdle]
    /\ nconn = 0

NextCo ==
    \/ \E t \in TextSlots, c \in ChatIds, has_url \in BOOLEAN : TextStart(t, c, has_url)
    \/ \E t \in TextSlots, summary \in BOOLEAN : TextSummarized(t, summary)
    \/ \E t \in TextSlots : TextReturn(t)

SpecCo == InitCo /\ [][NextCo]_vars

\* buy_stock called on two connections at a time.
NextConn ==
    \/ \E k \in Conns, acc \in ConnAccounts, t \in Tickers, s \in ConnShares, p \in ApiPrices :
           ConnSelect(k, acc[1], acc[2], first_name(acc[2]), t, s, p)
    \/ \E k \in Conns : ConnWrite(k)
    \/ \E k \in Conns : ConnReturn(k)

SpecConn == Init /\ [][NextConn]_vars

----------------------------------------------------------------------------
(* Vocabulary of the properties.                                           *)

Done(h) == buy[h].pc = "done"

\* quantity * price of a buy whose price lookup yielded a number
Cost(b) == b.price_v * b.quantity

\* the balance of the account of buy b in the tables db
BalanceIn(db, b) == get_balance(db.cash, b.chat_id, b.user_id)

\* the position rows of the account of b for ticker t in the tables db
PositionIn(db, b, t) == position_rows(db.pf, b.chat_id, b.user_id, t)

\* the shares the account of b holds of ticker t in the tables db
SharesIn(db, b, t) ==
    IF PositionIn(db, b, t) = {} THEN 0 ELSE (CHOOSE r \in PositionIn(db, b, t) : TRUE).shares

\* a ticker and a quantity were extracted, a price was found, both are positive
Valid(b) ==
    /\ b.extracted
    /\ b.ticker # ""
    /\ b.price = "value"
    /\ b.price_v > 0
    /\ b.quantity > 0

Min(a, b) == IF a < b THEN a ELSE b

----------------------------------------------------------------------------
(* Properties.                                                             *)

\* C1: a buy with quantity > 0, price > 0 and balance >= quantity * price ends
\* with the balance lowered by quantity * price, and with the position
\* (quantity, price) if the ticker had none, or with quantity more shares if
\* it had one.
C1_BuyApplied ==
    \A h \in Handlers :
        LET b == buy[h] IN
        (Done(h) /\ Valid(b) /\ BalanceIn(b.before, b) >= Cost(b)) =>
            /\ BalanceIn(b.after, b) = BalanceIn(b.before, b) - Cost(b)
            /\ PositionIn(b.before, b, b.ticker) = {} =>
                  /\ PositionIn(b.after, b, b.ticker) # {}
                  /\ \A r \in PositionIn(b.after, b, b.ticker) :
                        r.shares = b.quantity /\ r.avg_price = FracOf(b.price_v)
            /\ PositionIn(b.before, b, b.ticker) # {} =>
                  SharesIn(b.after, b, b.ticker) = SharesIn(b.before, b, b.ticker) + b.quantity

\* C2: a buy whose total cost exceeds the balance is rejected as insufficient
\* funds and leaves every balance and every position as it was.
C2_InsufficientRejected ==
    \A h \in Handlers :
        LET b == buy[h] IN
        (Done(h) /\ Valid(b) /\ Cost(b) > BalanceIn(b.before, b)) =>
            /\ b.reply = ReplyInsufficient
            /\ b.after = b.before

C4_NoLostUpdate ==
    \A h1, h2 \in Handlers :
        LET b1 == buy[h1]
            b2 == buy[h2]
        IN  (/\ h1 # h2 /\ Done(h1) /\ Done(h2)
             /\ b1.chat_id = b2.chat_id /\ b1.user_id = b2.user_id
             /\ Valid(b1) /\ Valid(b2)
             /\ b1.after = b2.before
             /\ BalanceIn(b1.before, b1) >= Cost(b1) + Cost(b2)) =>
                /\ BalanceIn(b2.after, b2) = BalanceIn(b1.before, b1) - Cost(b1) - Cost(b2)
                /\ \A t \in Tickers :
                      SharesIn(b2.after, b2, t) =
                          SharesIn(b1.before, b1, t)
                            + (IF b1.ticker = t THEN b1.quantity ELSE 0)
                            + (IF b2.ticker = t THEN b2.quantity ELSE 0)

\* C5: after any sequence of buy_stock calls that returned, for one account
\* and ticker, the position has the sum of the quantities as shares, and
\* shares * avg_price is the sum of quantity * price.
C5_WeightedAverage ==
    \A k \in Keys :
        LET rows == position_rows(portfolios_v2, k[1], k[2], k[3]) IN
        /\ (paid[k].n > 0) <=> (rows # {})
        /\ \A r \in rows :
              /\ r.shares = paid[k].q
              /\ r.avg_price[1] * r.shares = paid[k].qp * r.avg_price[2]

\* C5 witness: three buys of positive quantities at prices that differ have
\* been averaged into one position.
C5_Witness ==
    \E k \in Keys :
        /\ paid[k].n = 3
        /\ paid[k].q = 6
        /\ \E r \in position_rows(portfolios_v2, k[1], k[2], k[3]) :
              r.avg_price \notin {FracOf(p) : p \in ApiPrices} /\ r.avg_price # Frac(330, 2)

C7_InvalidInputRejected ==
    \A h \in Handlers :
        LET b == buy[h] IN
        (/\ Done(h) /\ b.extracted
         /\ b.quantity <= 0 \/ (b.price = "value" /\ b.price_v <= 0)) =>
            /\ b.dbcalls = <<>>
            /\ b.reply # ReplyExecuted
            /\ b.after = b.before

\* C8: a buy whose extraction fails or yields no ticker, or whose price
\* lookup fails or yields no price, is blocked: it calls no ledger function
\* and writes no balance and no position.
C8_NoPriceBlocksBuy ==
    \A h \in Handlers :
        LET b == buy[h] IN
        (/\ Done(h)
         /\ \/ ~b.extracted
            \/ b.ticker = ""
            \/ b.price \in {"raise", "None"}
            \/ b.price = "value" /\ b.price_v = 0) =>
            /\ b.dbcalls = <<>>
            /\ b.reply \in {ReplyFailed, ReplyNoTicker, ReplyNoPrice}
            /\ b.after = b.before

\* C8 witness: a buy with a ticker and a positive quantity whose price lookup
\* yielded 0 has ended with the no-price reply.
C8_Witness ==
    \E h \in Handlers :
        LET b == buy[h] IN
        /\ Done(h) /\ b.extracted /\ b.ticker # "" /\ b.quantity > 0
        /\ b.price = "value" /\ b.price_v = 0
        /\ b.reply = ReplyNoPrice

\* C9: the window of every chat holds at most MAX_HISTORY_LENGTH messages.
C9_WindowBounded ==
    \A c \in DOMAIN chat_histories : Len(chat_histories[c]) <= MAX_HISTORY_LENGTH

\* C9 witness: a chat has received more messages than the window holds, and
\* its window is full.
C9_Witness ==
    \E c \in DOMAIN chat_histories :
        /\ Len(sent[c]) > MAX_HISTORY_LENGTH
        /\ Len(chat_histories[c]) = MAX_HISTORY_LENGTH

\* C10: after n messages of a chat, its window is the last
\* min(n, MAX_HISTORY_LENGTH) of them, in the order they were appended.
C10_WindowIsSuffix ==
    \A c \in ChatIds :
        LET n == Len(sent[c]) IN
        n > 0 =>
            /\ c \in DOMAIN chat_histories
            /\ chat_histories[c] = SubSeq(sent[c], n - Min(n, MAX_HISTORY_LENGTH) + 1, n)

\* C10 witness: two messages more than the window holds have been appended
\* and the two oldest are gone: the window starts at the third.
C10_Witness ==
    \E c \in DOMAIN chat_histories :
        /\ Len(sent[c]) = MAX_HISTORY_LENGTH + 2
        /\ Len(chat_histories[c]) = MAX_HISTORY_LENGTH
        /\ chat_histories[c][1] = sent[c][3]
        /\ chat_histories[c][MAX_HISTORY_LENGTH] = sent[c][MAX_HISTORY_LENGTH + 2]

RECURSIVE MarketValue(_, _)
\* the sum over holdings of shares * price, with shares * avg_price where the
\* lookup of the ticker yielded no number
MarketValue(holdings, lookup) ==
    IF holdings = {} THEN FracOf(0)
    ELSE LET h == CHOOSE x \in holdings : TRUE
             v == IF lookup[h.ticker].kind = "value"
                  THEN FracOf(h.shares * lookup[h.ticker].v)
                  ELSE FracScale(h.shares, h.avg_price)
         IN  FracAdd(v, MarketValue(holdings \ {h}, lookup))

\* C11: a portfolio report gives net worth = cash balance + the market values
\* of all positions of the holder, a position whose lookup failed counted at
\* shares * avg_price.
C11_NetWorthCountsAll ==
    [][report' # report =>
          /\ ~report'.raised
          /\ report'.net_worth =
                FracAdd(FracOf(get_balance(cash_v2, report'.chat_id, report'.user_id)),
                        MarketValue(get_portfolio(portfolios_v2, report'.chat_id, report'.user_id),
                                    report'.lookups))]_vars

\* C12: get_balance on an account without a record returns the starting balance,
\* every time, and no call of it writes a record.
C12_DefaultReadWritesNothing ==
    [][nreads' # nreads =>
          /\ cash_v2' = cash_v2
          /\ (~ret'.had_row => ret'.value = StartingBalance)]_vars

\* A second read of an account that has no record, other accounts having one,
\* returned the starting balance.
C12_Witness ==
    /\ nreads >= 2
    /\ ret.pc = "done" /\ ~ret.had_row /\ ret.value = StartingBalance
    /\ cash_v2 # {}
    /\ \A r \in cash_v2 : ~(r.chat_id = ret.chat_id /\ r.user_id = ret.user_id)

\* C13: every stored position has shares > 0 and avg_price > 0, in every
\* reachable state.
C13_PositionsPositive ==
    \A r \in portfolios_v2 : r.shares > 0 /\ r.avg_price[1] > 0

\* the step leaves the balance row and the position rows of account (c, u) as they were
Untouched(c, u) ==
    /\ {r \in cash_v2' : r.chat_id = c /\ r.user_id = u}
           = {r \in cash_v2 : r.chat_id = c /\ r.user_id = u}
    /\ {r \in portfolios_v2' : r.chat_id = c /\ r.user_id = u}
           = {r \in portfolios_v2 : r.chat_id = c /\ r.user_id = u}

\* the step leaves every account but (c, u) as it was
OthersUntouched(c, u) ==
    \A c2 \in ChatIds, u2 \in UserIds : <<c2, u2>> # <<c, u>> => Untouched(c2, u2)

\* C17: a write for one account changes no balance and no position of any
\* other (scope, holder): every step leaves all accounts but one as they were,
\* and a buy_stock call that returned leaves all but its own as they were.
C17_OtherAccountsUntouched ==
    [][/\ \E c \in ChatIds, u \in UserIds : OthersUntouched(c, u)
       /\ \A k \in Keys : paid'[k] # paid[k] => OthersUntouched(k[1], k[2])]_vars

\* Two accounts of one chat and two accounts of one user hold rows, written
\* one after the other: a position of (1, 1), a balance of (1, 2), a position
\* of (2, 1).
C17_Witness ==
    /\ \E r \in portfolios_v2 : r.chat_id = 1 /\ r.user_id = 1
    /\ \E r \in cash_v2 : r.chat_id = 1 /\ r.user_id = 2
    /\ \E r \in portfolios_v2 : r.chat_id = 2 /\ r.user_id = 1
    /\ ~\E r \in cash_v2 : r.chat_id = 1 /\ r.user_id = 1

\* C18: get_all_investors(chat_id) returns exactly the holders with a position
\* in that chat, each of them once, whatever display names their buys carried.
C18_HoldersListedOnce ==
    \A c \in ChatIds :
        LET listed == get_all_investors(portfolios_v2, c) IN
        /\ {e.user_id : e \in listed} = {r.user_id : r \in {x \in portfolios_v2 : x.chat_id = c}}
        /\ \A u \in UserIds : Cardinality({e \in listed : e.user_id = u}) <= 1

\* C15: the history taken right after an append holds the window without the
\* entry just appended: the history_context a handler computes at once for
\* its message does not contain that message.
C15_SnapshotExcludesLast ==
    \A t \in TextSlots :
        (txt[t].pc = "analyze" /\ txt[t].fresh) =>
            \A i \in 1..Len(txt[t].history_context) : txt[t].history_context[i] # txt[t].msg

\* C16: an append to the window of one chat leaves the window of every other
\* chat unchanged: a step that records no message of chat c neither creates
\* nor changes the window of c.
C16_ScopesIndependent ==
    [][\A c \in ChatIds :
          sent'[c] = sent[c] =>
              /\ (c \in DOMAIN chat_histories') = (c \in DOMAIN chat_histories)
              /\ (c \in DOMAIN chat_histories => chat_histories'[c] = chat_histories[c])]_vars

\* Chat 1 has a full window that evicted, chat 2 a window of two messages.
C16_Witness ==
    /\ DOMAIN chat_histories = ChatIds
    /\ Len(sent[1]) > MAX_HISTORY_LENGTH
    /\ Len(chat_histories[1]) = MAX_HISTORY_LENGTH
    /\ chat_histories[2] = sent[2]
    /\ Len(sent[2]) = 2

\* C19: the window of a chat is created once: whatever handlers of the chat
\* are under way, a step keeps an existing window, its entries in place, or
\* appends the message it records, dropping the oldest entry only when the
\* window was full.
C19_WindowNeverReinitialized ==
    [][\A c \in DOMAIN chat_histories :
          /\ c \in DOMAIN chat_histories'
          /\ \/ chat_histories'[c] = chat_histories[c]
             \/ /\ Len(sent'[c]) = Len(sent[c]) + 1
                /\ LET m == sent'[c][Len(sent'[c])]
                       grown == Append(chat_histories[c], m)
                   IN  IF Len(chat_histories[c]) < MAX_HISTORY_LENGTH
                       THEN chat_histories'[c] = grown
                       ELSE chat_histories'[c] = SubSeq(grown, 2, Len(grown))]_vars

\* Two handlers of chat 1 are suspended, their messages both in its window,
\* which was full and has evicted.
C19_Witness ==
    /\ \A t \in TextSlots : txt[t].pc = "summarize" /\ txt[t].chat_id = 1
    /\ \A t \in TextSlots : \E i \in 1..Len(chat_histories[1]) : chat_histories[1][i] = txt[t].msg
    /\ Len(sent[1]) > MAX_HISTORY_LENGTH
    /\ Len(chat_histories[1]) = MAX_HISTORY_LENGTH

\* C14: there is at most one position row per (chat_id, user_id, ticker) in
\* every reachable state, also when two calls buy the same new ticker for the
\* same account at a time; a buy of a ticker that has a row leaves one row.
C14_OnePositionPerKey ==
    \A k \in Keys : Cardinality(position_rows(portfolios_v2, k[1], k[2], k[3])) <= 1

\* Two calls found no row of the same key; one inserted it, the INSERT of the
\* other was refused, and a later call has updated the row.
C14_Witness ==
    \E k \in Conns :
        /\ conn[k].pc = "done"
        /\ conn[k].outcome = "IntegrityError"
        /\ \E r \in position_rows(portfolios_v2, conn[k].chat_id, conn[k].user_id, conn[k].ticker) :
               r.shares >= 2

RECURSIVE CostBasis(_)
\* the sum of shares * avg_price over the position rows
CostBasis(rows) ==
    IF rows = {} THEN FracOf(0)
    ELSE LET r == CHOOSE x \in rows : TRUE
         IN  FracAdd(FracScale(r.shares, r.avg_price), CostBasis(rows \ {r}))

\* no buy_command is between its /buy update and its reply
NoBuyInProgress == \A h \in Handlers : buy[h].pc # "llm"

====
